---- MODULE Spec2Model ----
\* Model of src/app/main.py: a folder of page images is enumerated, every
\* image is sent to the Azure Read API (submission, then a poll loop with
\* a wall-clock deadline), with pytesseract as fallback, and one markdown
\* section per page is accumulated and written once at the end.
\* 
\* Strings are sequences of tokens: a token is one character of OCR text
\* ("a", "b", "c", "t", " ", "\n") or one literal fragment of a message.
\* Time is counted in units of the poll interval, 0.5 s (line 77).
EXTENDS Integers, Sequences, FiniteSets, TLC

VARIABLES
    folder,          \* IMAGE_FOLDER on disk: [exists, entries]
    AZURE_ENDPOINT,  \* line 32
    AZURE_KEY,       \* line 33
    READ_API,        \* lines 47-49
    pytesseract,     \* lines 37-41: TRUE iff the import succeeded
    pc,              \* position of main()
    files,           \* line 85
    idx,             \* line 90: enumerate index of the current file
    text,            \* line 95
    e_azure,         \* line 100: the caught remote exception's message
    rj,              \* line 66: the last poll payload
    time_now,        \* time.time(), counted from the evaluation of line 63
    deadline,        \* line 63
    md_lines,        \* line 88
    docs,            \* line 87
    output,          \* content of OUTPUT_MD written by this run
    written,         \* number of write operations on OUTPUT_MD by this run
    log              \* per page: what was invoked and what it answered

vars == <<folder, AZURE_ENDPOINT, AZURE_KEY, READ_API, pytesseract, pc, files,
          idx, text, e_azure, rj, time_now, deadline, md_lines, docs, output,
          written, log>>

\* ------------------------------------------------------------------ bounds

\* Directory entries are named 1..MaxStem.
MaxStem == 3
\* A poll request takes 0..MaxLatency time units.
MaxLatency == 1

\* --------------------------------------------------------- program constants

\* azure_read_image(path, timeout=30): seconds.
Timeout == 30
\* time.sleep(0.5): one time unit.
SleepTicks == 1
\* The accepted status of the submission.
Accepted == 202

\* ------------------------------------------------------------------ values

None == "<None>"
EnvValues == {None, "", "set"}

\* Python truthiness of an optional string.
Truthy(v) == v \notin {None, ""}

IMAGE_EXTS == {".png", ".jpg", ".jpeg", ".tiff", ".bmp", ".gif"}

\* str.lower() on the suffixes that occur.
Lower(s) ==
    CASE s = ".PNG" -> ".png"
      [] s = ".JPG" -> ".jpg"
      [] s = ".GIF" -> ".gif"
      [] OTHER -> s

Suffixes == <<".png", ".txt", ".JPG", ".gif", ".md", ".jpeg">>

\* The directory entry named n.
Entry(n) == [stem |-> n, suffix |-> Suffixes[((n - 1) % Len(Suffixes)) + 1]]

Pool == {Entry(n) : n \in 1..MaxStem}

Whitespace == {" ", "\n"}

Range(s) == {s[i] : i \in 1..Len(s)}

\* All orderings of a finite set, as sequences.
Orderings(S) ==
    {s \in [1..Cardinality(S) -> S] : \A i, j \in 1..Cardinality(S) : i # j => s[i] # s[j]}

\* ------------------------------------------------------------ pure functions

\* Line 49 guard: READ_API is set only when endpoint and key are both truthy.
ReadApiOr(endpoint, key) ==
    IF Truthy(endpoint) \/ Truthy(key) THEN "url/vision/v3.2/read/analyze" ELSE None

ReadApi(endpoint, key) ==
    IF Truthy(endpoint) /\ Truthy(key) THEN "url/vision/v3.2/read/analyze" ELSE None

\* Line 85: the comprehension's filter.
IsImage(p) == Lower(p.suffix) \in IMAGE_EXTS

\* Path ordering: entries have distinct stems.
PathLess(p, q) == p.stem < q.stem

RECURSIVE Insert(_, _)
Insert(p, s) ==
    IF s = <<>> THEN <<p>>
    ELSE IF PathLess(p, Head(s)) THEN <<p>> \o s
    ELSE <<Head(s)>> \o Insert(p, Tail(s))

RECURSIVE Sorted(_)
Sorted(s) == IF s = <<>> THEN <<>> ELSE Insert(Head(s), Sorted(Tail(s)))

\* Line 85: sorted([p for p in iterdir() if p.suffix.lower() in IMAGE_EXTS]).
ListFiles(listing) == Sorted(SelectSeq(listing, IsImage))

\* str.rstrip()
RECURSIVE RStrip(_)
RStrip(s) ==
    IF s = <<>> THEN <<>>
    ELSE IF s[Len(s)] \in Whitespace THEN RStrip(SubSeq(s, 1, Len(s) - 1))
    ELSE s

\* str.lstrip()
RECURSIVE LStrip(_)
LStrip(s) ==
    IF s = <<>> THEN <<>>
    ELSE IF Head(s) \in Whitespace THEN LStrip(Tail(s))
    ELSE s

\* str.strip()
Strip(s) == LStrip(RStrip(s))

\* Lines 70-73: the lines of all pages, in the order given.
RECURSIVE Lines(_)
Lines(read_results) ==
    IF read_results = <<>> THEN <<>>
    ELSE Head(read_results) \o Lines(Tail(read_results))

\* Line 74: "\n".join(lines).
RECURSIVE JoinLines(_)
JoinLines(lines) ==
    IF lines = <<>> THEN <<>>
    ELSE IF Len(lines) = 1 THEN lines[1]
    ELSE lines[1] \o <<"\n">> \o JoinLines(Tail(lines))

\* ------------------------------------------------------------------ messages

NoError == <<>>
TimeoutMsg == <<"Timed out waiting for Azure Read result">>
MissingLocationMsg == <<"Missing Operation-Location header from Azure response">>
FailedMsg == <<"Azure Read failed: ", "<payload>">>
RequestErrorMsg == <<"<requests exception>">>
TesseractErrorMsg == <<"<tesseract exception>">>
NoBackendText ==
    <<"_No OCR backend available. Set AZURE_OCR_* or install pytesseract and Tesseract executable._">>

StatusStr(code) ==
    CASE code = 202 -> "202"
      [] code = 200 -> "200"
      [] code = 401 -> "401"
      [] OTHER -> "<status>"

\* Line 57.
ApiErrorMsg(code) == <<"Azure Read API error: ", StatusStr(code), " ", "<body>">>

\* Line 109.
AzureErrorTextDropped(e) == <<"_Error during OCR: Azure error: ", "_">>

AzureErrorText(e) == <<"_Error during OCR: Azure error: ">> \o e \o <<"_">>

\* Line 107.
CombinedErrorText(e, t) ==
    <<"_Error during OCR: Azure error: ">> \o e \o <<"; Tesseract error: ">> \o t \o <<"_">>

\* Line 116.
TesseractErrorText(t) == <<"_Tesseract error: ">> \o t \o <<"_">>

\* ------------------------------------------------------- environment answers

\* What the submission (lines 53-54) can do: raise, or return a response.
SubmitReplies ==
    {[raised |-> TRUE, status_code |-> 0, location |-> None]}
    \cup {[raised |-> FALSE, status_code |-> c, location |-> l] :
            c \in {Accepted, 401}, l \in {None, "", "op-url"}}

\* What kind of answer a submission reply is, read off the reply alone.
SubmitClass(r) ==
    IF r.raised THEN "raised"
    ELSE IF r.status_code # 202 THEN "rejected"
    ELSE IF r.location \in {None, ""} THEN "no_location"
    ELSE "accepted"

\* What a poll (lines 65-67) can do: raise (the request, or the decoding of its
\* body), or return a payload with a status and, on success, read results.
ReadResultsSet ==
    { <<>>,
      << << <<" ">> >> >>,
      << << <<"a">>, <<"b">> >>, << <<"c", " ">> >> >> }

PollReplies ==
    {[raised |-> TRUE, status |-> None, readResults |-> <<>>]}
    \cup {[raised |-> FALSE, status |-> s, readResults |-> <<>>] :
            s \in {"running", "failed"}}
    \cup {[raised |-> FALSE, status |-> "succeeded", readResults |-> rr] :
            rr \in ReadResultsSet}

NoReply == [raised |-> FALSE, status |-> None, readResults |-> <<>>]

\* What the local engine (lines 104-105, 113-114) can do.
TessReplies ==
    {[raised |-> TRUE, text |-> <<>>]}
    \cup {[raised |-> FALSE, text |-> t] : t \in {<<>>, <<"t", "\n">>}}

\* ------------------------------------------------------------ markdown lines

NoPath == [stem |-> 0, suffix |-> ""]

MdLine(kind, page, name, body) == [kind |-> kind, page |-> page, name |-> name, body |-> body]

TitleLine == MdLine("title", 0, NoPath, <<"# OCR Output\n">>)

\* Line 92: the heading carries idx - 1.
HeadingZeroBased(i, path) == MdLine("heading", i - 1, path, <<>>)

\* Line 92.
Heading(i, path) == MdLine("heading", i, path, <<>>)

\* Line 93.
ImageRef(path) == MdLine("image", 0, path, <<>>)

\* Lines 122-127 ("<fence>" stands for the three backquotes).
Rendered(t) ==
    IF Strip(t) = <<>>
    THEN << MdLine("notice", 0, NoPath, <<"_No text recognized._\n">>) >>
    ELSE << MdLine("fence_open", 0, NoPath, <<"<fence>text">>),
            MdLine("text", 0, NoPath, RStrip(t)),
            MdLine("fence_close", 0, NoPath, <<"<fence>\n">>) >>

\* Line 120.
Document(t, i, path) == [page_content |-> t, page |-> i, source |-> path]

\* ----------------------------------------------------------------- the log

NewLog ==
    [azure |-> 0, tess |-> 0, polls |-> 0, submit |-> "none",
     exit |-> "none", azureText |-> <<>>, tessOk |-> FALSE, tessText |-> <<>>]

\* Poll requests are counted as 0, 1, 2 (two or more).
Counted(n) == IF n < 2 THEN n + 1 ELSE n

\* ------------------------------------------------------------------- Init

Init ==
    /\ folder \in {[exists |-> FALSE, entries |-> {}]}
                  \cup {[exists |-> TRUE, entries |-> S] : S \in SUBSET Pool}
    /\ AZURE_ENDPOINT \in EnvValues
    /\ AZURE_KEY \in EnvValues
    /\ READ_API = ReadApi(AZURE_ENDPOINT, AZURE_KEY)
    /\ pytesseract \in BOOLEAN
    /\ pc = "enumerate"
    /\ files = <<>>
    /\ idx = 0
    /\ text = <<>>
    /\ e_azure = NoError
    /\ rj = NoReply
    /\ time_now = 0
    /\ deadline = 0
    /\ md_lines = <<>>
    /\ docs = <<>>
    /\ output = <<>>
    /\ written = 0
    /\ log = <<>>

\* ---------------------------------------------------------------- actions

\* Line 85, the directory being listable: iterdir() yields the entries in
\* some order; lines 87-88.
Enumerate ==
    /\ pc = "enumerate"
    /\ folder.exists
    /\ \E listing \in Orderings(folder.entries) :
         /\ files' = ListFiles(listing)
         /\ pc' = IF ListFiles(listing) = <<>> THEN "write" ELSE "page"
    /\ docs' = <<>>
    /\ md_lines' = <<TitleLine>>
    /\ UNCHANGED <<folder, AZURE_ENDPOINT, AZURE_KEY, READ_API, pytesseract, idx,
                   text, e_azure, rj, time_now, deadline, output, written, log>>

\* Line 85, the directory missing or not listable: iterdir() raises, nothing
\* catches it, main() ends.
EnumerateFails ==
    /\ pc = "enumerate"
    /\ ~folder.exists
    /\ pc' = "aborted"
    /\ UNCHANGED <<folder, AZURE_ENDPOINT, AZURE_KEY, READ_API, pytesseract, files,
                   idx, text, e_azure, rj, time_now, deadline, md_lines, docs,
                   output, written, log>>

\* Line 97 with a circuit breaker: the remote backend is skipped once it has
\* failed on an earlier file.
UseRemoteBreaker ==
    /\ Truthy(READ_API)
    /\ \A k \in 1..Len(log) : log[k].exit \in {"none", "succeeded"}

\* Line 97: if READ_API.
UseRemote == Truthy(READ_API)

\* Lines 90-97 and 110-118: the next file's heading and image reference, and
\* the choice of the first backend.
StartPage ==
    /\ pc = "page"
    /\ idx < Len(files)
    /\ idx' = idx + 1
    /\ md_lines' = md_lines \o <<Heading(idx + 1, files[idx + 1]), ImageRef(files[idx + 1])>>
    /\ e_azure' = NoError
    /\ rj' = NoReply
    /\ log' = Append(log, NewLog)
    /\ IF UseRemote
       THEN text' = <<>> /\ pc' = "submit"
       ELSE IF pytesseract
       THEN text' = <<>> /\ pc' = "tess"
       ELSE text' = NoBackendText /\ pc' = "emit"
    /\ UNCHANGED <<folder, AZURE_ENDPOINT, AZURE_KEY, READ_API, pytesseract, files,
                   time_now, deadline, docs, output, written>>

\* Lines 53-61 without the check of line 60.
SubmitErrorNoLocationCheck(r) ==
    IF r.raised THEN RequestErrorMsg
    ELSE IF r.status_code # Accepted THEN ApiErrorMsg(r.status_code)
    ELSE NoError

\* Lines 53-61: the error the submission ends with, NoError when it goes on
\* to the poll loop.
SubmitError(r) ==
    IF r.raised THEN RequestErrorMsg
    ELSE IF r.status_code # Accepted THEN ApiErrorMsg(r.status_code)
    ELSE IF ~Truthy(r.location) THEN MissingLocationMsg
    ELSE NoError

\* Lines 99 and 53-63: azure_read_image is entered and the image submitted.
Submit ==
    /\ pc = "submit"
    /\ \E r \in SubmitReplies :
         IF SubmitError(r) # NoError
         THEN /\ e_azure' = SubmitError(r)
              /\ pc' = "except"
              /\ log' = [log EXCEPT ![idx].azure = @ + 1,
                                    ![idx].submit = SubmitClass(r),
                                    ![idx].exit = "submit_error"]
              /\ UNCHANGED <<time_now, deadline>>
         ELSE /\ time_now' = 0
              /\ deadline' = 2 * Timeout
              /\ pc' = "poll"
              /\ log' = [log EXCEPT ![idx].azure = @ + 1,
                                    ![idx].submit = SubmitClass(r)]
              /\ UNCHANGED e_azure
    /\ UNCHANGED <<folder, AZURE_ENDPOINT, AZURE_KEY, READ_API, pytesseract, files,
                   idx, text, rj, md_lines, docs, output, written>>

\* Lines 64-77 and 99 with an empty result treated as a failure.
PollFallbackOnEmpty ==
    /\ pc = "poll"
    /\ time_now < deadline
    /\ \E r \in PollReplies :
         /\ rj' = r
         /\ IF r.raised
            THEN /\ e_azure' = RequestErrorMsg
                 /\ pc' = "except"
                 /\ log' = [log EXCEPT ![idx].polls = Counted(@), ![idx].exit = "poll_error"]
                 /\ time_now' = 0
                 /\ deadline' = 0
                 /\ UNCHANGED text
            ELSE IF r.status = "succeeded" /\ Strip(JoinLines(Lines(r.readResults))) = <<>>
            THEN /\ e_azure' = <<"empty result">>
                 /\ pc' = "except"
                 /\ log' = [log EXCEPT ![idx].polls = Counted(@), ![idx].exit = "succeeded",
                                       ![idx].azureText = JoinLines(Lines(r.readResults))]
                 /\ time_now' = 0
                 /\ deadline' = 0
                 /\ UNCHANGED text
            ELSE IF r.status = "succeeded"
            THEN /\ text' = JoinLines(Lines(r.readResults))
                 /\ pc' = "emit"
                 /\ log' = [log EXCEPT ![idx].polls = Counted(@), ![idx].exit = "succeeded",
                                       ![idx].azureText = JoinLines(Lines(r.readResults))]
                 /\ time_now' = 0
                 /\ deadline' = 0
                 /\ UNCHANGED e_azure
            ELSE IF r.status = "failed"
            THEN /\ e_azure' = FailedMsg
                 /\ pc' = "except"
                 /\ log' = [log EXCEPT ![idx].polls = Counted(@), ![idx].exit = "failed"]
                 /\ time_now' = 0
                 /\ deadline' = 0
                 /\ UNCHANGED text
            ELSE /\ \E d \in 0..MaxLatency : time_now' = time_now + d + SleepTicks
                 /\ log' = [log EXCEPT ![idx].polls = Counted(@)]
                 /\ UNCHANGED <<pc, text, e_azure, deadline>>
    /\ UNCHANGED <<folder, AZURE_ENDPOINT, AZURE_KEY, READ_API, pytesseract, files,
                   idx, md_lines, docs, output, written>>

\* Lines 64-77: one iteration of the poll loop. The request takes d time
\* units; it raises, or its payload's status decides: return the joined
\* lines, raise, or sleep and go round again.
Poll ==
    /\ pc = "poll"
    /\ time_now < deadline
    /\ \E r \in PollReplies :
         /\ rj' = r
         /\ IF r.raised
            THEN /\ e_azure' = RequestErrorMsg
                 /\ pc' = "except"
                 /\ log' = [log EXCEPT ![idx].polls = Counted(@), ![idx].exit = "poll_error"]
                 /\ time_now' = 0
                 /\ deadline' = 0
                 /\ UNCHANGED text
            ELSE IF r.status = "succeeded"
            THEN /\ text' = JoinLines(Lines(r.readResults))
                 /\ pc' = "emit"
                 /\ log' = [log EXCEPT ![idx].polls = Counted(@), ![idx].exit = "succeeded",
                                       ![idx].azureText = JoinLines(Lines(r.readResults))]
                 /\ time_now' = 0
                 /\ deadline' = 0
                 /\ UNCHANGED e_azure
            ELSE IF r.status = "failed"
            THEN /\ e_azure' = FailedMsg
                 /\ pc' = "except"
                 /\ log' = [log EXCEPT ![idx].polls = Counted(@), ![idx].exit = "failed"]
                 /\ time_now' = 0
                 /\ deadline' = 0
                 /\ UNCHANGED text
            ELSE /\ \E d \in 0..MaxLatency : time_now' = time_now + d + SleepTicks
                 /\ log' = [log EXCEPT ![idx].polls = Counted(@)]
                 /\ UNCHANGED <<pc, text, e_azure, deadline>>
    /\ UNCHANGED <<folder, AZURE_ENDPOINT, AZURE_KEY, READ_API, pytesseract, files,
                   idx, md_lines, docs, output, written>>

\* Lines 64 and 79 with the loop falling through: no error is raised and the
\* call returns an empty text.
PollTimeoutReturnsEmpty ==
    /\ pc = "poll"
    /\ time_now >= deadline
    /\ text' = <<>>
    /\ pc' = "emit"
    /\ log' = [log EXCEPT ![idx].exit = "timeout"]
    /\ time_now' = 0
    /\ deadline' = 0
    /\ UNCHANGED <<folder, AZURE_ENDPOINT, AZURE_KEY, READ_API, pytesseract, files,
                   idx, e_azure, rj, md_lines, docs, output, written>>

\* Lines 64 and 79: the deadline has passed, the loop ends and TimeoutError
\* is raised.
PollTimeout ==
    /\ pc = "poll"
    /\ time_now >= deadline
    /\ e_azure' = TimeoutMsg
    /\ pc' = "except"
    /\ log' = [log EXCEPT ![idx].exit = "timeout"]
    /\ time_now' = 0
    /\ deadline' = 0
    /\ UNCHANGED <<folder, AZURE_ENDPOINT, AZURE_KEY, READ_API, pytesseract, files,
                   idx, text, rj, md_lines, docs, output, written>>

\* Lines 100-109 without the handler: the remote error leaves main().
ExceptPropagates ==
    /\ pc = "except"
    /\ pc' = "aborted"
    /\ UNCHANGED <<folder, AZURE_ENDPOINT, AZURE_KEY, READ_API, pytesseract, files,
                   idx, text, e_azure, rj, time_now, deadline, md_lines, docs,
                   output, written, log>>

\* Lines 100-102 and 108-109: the remote error is caught; the local engine
\* is next when it is available, else the page gets the remote error.
Except ==
    /\ pc = "except"
    /\ IF pytesseract
       THEN pc' = "tess" /\ UNCHANGED text
       ELSE pc' = "emit" /\ text' = AzureErrorText(e_azure)
    /\ UNCHANGED <<folder, AZURE_ENDPOINT, AZURE_KEY, READ_API, pytesseract, files,
                   idx, e_azure, rj, time_now, deadline, md_lines, docs, output,
                   written, log>>

\* Lines 103-107 with the fallback's result discarded for the remote error.
FallbackTextIgnoresLocal(r) ==
    IF r.raised THEN CombinedErrorText(e_azure, TesseractErrorMsg) ELSE AzureErrorText(e_azure)

\* Lines 103-107: the text of a page whose remote attempt failed, from the
\* local engine's answer.
FallbackText(r) ==
    IF r.raised THEN CombinedErrorText(e_azure, TesseractErrorMsg) ELSE r.text

\* Lines 112-116: the text of a page of a run without remote backend.
LocalText(r) ==
    IF r.raised THEN TesseractErrorText(TesseractErrorMsg) ELSE r.text

\* Lines 103-107 and 112-116: the local engine is run on the file.
Tesseract ==
    /\ pc = "tess"
    /\ \E r \in TessReplies :
         /\ text' = IF UseRemote THEN FallbackText(r) ELSE LocalText(r)
         /\ log' = [log EXCEPT ![idx].tess = @ + 1,
                               ![idx].tessOk = ~r.raised,
                               ![idx].tessText = r.text]
    /\ pc' = "emit"
    /\ UNCHANGED <<folder, AZURE_ENDPOINT, AZURE_KEY, READ_API, pytesseract, files,
                   idx, e_azure, rj, time_now, deadline, md_lines, docs, output,
                   written>>

\* Lines 120-127 with the file written after every page.
EmitFlushing ==
    /\ pc = "emit"
    /\ docs' = Append(docs, Document(text, idx, files[idx]))
    /\ md_lines' = md_lines \o Rendered(text)
    /\ output' = md_lines \o Rendered(text)
    /\ written' = written + 1
    /\ pc' = IF idx < Len(files) THEN "page" ELSE "write"
    /\ UNCHANGED <<folder, AZURE_ENDPOINT, AZURE_KEY, READ_API, pytesseract, files,
                   idx, text, e_azure, rj, time_now, deadline, log>>

\* Lines 120-127: the page's document and its text block; then the next
\* file, or the end of the loop.
Emit ==
    /\ pc = "emit"
    /\ docs' = Append(docs, Document(text, idx, files[idx]))
    /\ md_lines' = md_lines \o Rendered(text)
    /\ pc' = IF idx < Len(files) THEN "page" ELSE "write"
    /\ UNCHANGED <<folder, AZURE_ENDPOINT, AZURE_KEY, READ_API, pytesseract, files,
                   idx, text, e_azure, rj, time_now, deadline, output, written, log>>

\* Lines 129-130: the accumulated lines are written in one operation.
WriteOutput ==
    /\ pc = "write"
    /\ output' = md_lines
    /\ written' = written + 1
    /\ pc' = "done"
    /\ UNCHANGED <<folder, AZURE_ENDPOINT, AZURE_KEY, READ_API, pytesseract, files,
                   idx, text, e_azure, rj, time_now, deadline, md_lines, docs, log>>

\* Line 91: os.path.relpath raises ValueError (the image folder and the
\* output on different drives); nothing catches it.
UncaughtError ==
    /\ pc = "page"
    /\ pc' = "aborted"
    /\ UNCHANGED <<folder, AZURE_ENDPOINT, AZURE_KEY, READ_API, pytesseract, files,
                   idx, text, e_azure, rj, time_now, deadline, md_lines, docs,
                   output, written, log>>

\* The process is interrupted (KeyboardInterrupt is no Exception, lines 100,
\* 106, 115 do not catch it) or killed while main() runs.
Interrupt ==
    /\ pc \in {"enumerate", "page", "submit", "poll", "except", "tess", "emit", "write"}
    /\ pc' = "aborted"
    /\ UNCHANGED <<folder, AZURE_ENDPOINT, AZURE_KEY, READ_API, pytesseract, files,
                   idx, text, e_azure, rj, time_now, deadline, md_lines, docs,
                   output, written, log>>

\* main() as the code runs it.
Next ==
    \/ Enumerate
    \/ EnumerateFails
    \/ StartPage
    \/ Submit
    \/ Poll
    \/ PollTimeout
    \/ Except
    \/ Tesseract
    \/ Emit
    \/ WriteOutput

Spec == Init /\ [][Next]_vars

\* main() with the ways a run stops early.
NextStopping == Next \/ UncaughtError \/ Interrupt

SpecStopping == Init /\ [][NextStopping]_vars

\* The interpreter keeps executing main(): a step that can be taken is taken.
FairSpec == Init /\ [][Next]_vars /\ WF_vars(Next)

\* ------------------------------------------------- reading the markdown

HeadingPositions(md) == {i \in 1..Len(md) : md[i].kind = "heading"}

IsHeading(e) == e.kind = "heading"

\* The page headings, in order.
Headings(md) == SelectSeq(md, IsHeading)

\* Where the k-th heading stands.
HeadingPos(md, k) ==
    CHOOSE i \in HeadingPositions(md) :
        Cardinality({j \in HeadingPositions(md) : j <= i}) = k

\* The k-th page section: from its heading to the line before the next one.
SectionOf(md, k) ==
    SubSeq(md, HeadingPos(md, k),
           IF k < Cardinality(HeadingPositions(md))
           THEN HeadingPos(md, k + 1) - 1
           ELSE Len(md))

\* Every token a section shows.
SectionTokens(md, k) == UNION {Range(SectionOf(md, k)[i].body) : i \in 1..Len(SectionOf(md, k))}

\* The lines of a section after its heading and image reference.
SectionBody(md, k) == SubSeq(SectionOf(md, k), 3, Len(SectionOf(md, k)))

ShowsError(md, k) ==
    SectionTokens(md, k) \cap {"_Error during OCR: Azure error: ", "_Tesseract error: "} # {}

ShowsNoBackendNotice(md, k) ==
    "_No OCR backend available. Set AZURE_OCR_* or install pytesseract and Tesseract executable._"
        \in SectionTokens(md, k)

ShowsNoTextNotice(md, k) == "_No text recognized._\n" \in SectionTokens(md, k)

RemoteFailures == {"submit_error", "poll_error", "failed", "timeout"}

\* The pages whose section is complete.
Pages == 1..Len(docs)

Configured == Truthy(AZURE_ENDPOINT) /\ Truthy(AZURE_KEY)

\* ------------------------------------------------------------------ claims

\* C1: a completed run over a folder with N image files has produced exactly
\* N page sections; the k-th carries page number k and the name of the k-th
\* file in sorted order, so numbers are dense, increasing and distinct,
\* whatever the OCR outcome of each file.
C1_PagesNumberedInOrder ==
    pc = "done" =>
        /\ Len(Headings(output)) = Cardinality({p \in folder.entries : IsImage(p)})
        /\ Len(docs) = Len(Headings(output))
        /\ \A k \in 1..Len(Headings(output)) :
             /\ Headings(output)[k].page = k
             /\ docs[k].page = k
             /\ Headings(output)[k].name \in {p \in folder.entries : IsImage(p)}
             /\ docs[k].source = Headings(output)[k].name
             /\ \A j \in 1..Len(Headings(output)) :
                  j < k => Headings(output)[j].name.stem < Headings(output)[k].name.stem

C1_Witness ==
    /\ pc = "done"
    /\ Len(Headings(output)) = 2
    /\ log[1].exit = "timeout"
    /\ log[1].tess = 1
    /\ log[2].exit = "succeeded"

\* C2 as stated: no per-page OCR failure aborts main(), and the section of
\* every page on which a failure happened shows an error message.
C2_EveryFailureShowsError ==
    /\ pc = "aborted" => ~folder.exists
    /\ \A k \in Pages :
         (\/ log[k].exit \in RemoteFailures
          \/ (log[k].tess > 0 /\ ~log[k].tessOk)
          \/ (~UseRemote /\ ~pytesseract))
         => (ShowsError(md_lines, k) \/ ShowsNoBackendNotice(md_lines, k))

\* C2 amended: no per-page OCR failure aborts main() or stops it; a completed
\* run has processed every file and written the output; the section of a
\* page for which no backend produced a text shows an error message, and the
\* section of a page whose remote failure was followed by a successful local
\* fallback shows the local text instead.
C2_FailuresRecovered ==
    /\ pc = "aborted" => ~folder.exists
    /\ pc \in {"done", "aborted"} \/ ENABLED Next
    /\ pc = "done" =>
         /\ Len(docs) = Len(files)
         /\ Len(Headings(output)) = Len(files)
         /\ written = 1
    /\ \A k \in Pages :
         /\ (\/ (log[k].exit \in RemoteFailures /\ ~(log[k].tess > 0 /\ log[k].tessOk))
             \/ (log[k].azure = 0 /\ log[k].tess > 0 /\ ~log[k].tessOk)
             \/ (~UseRemote /\ ~pytesseract))
            => (ShowsError(md_lines, k) \/ ShowsNoBackendNotice(md_lines, k))
         /\ (log[k].exit \in RemoteFailures /\ log[k].tess > 0 /\ log[k].tessOk)
            => (~ShowsError(md_lines, k) /\ docs[k].page_content = log[k].tessText)

C2_Witness ==
    /\ pc = "done"
    /\ Len(docs) = 2
    /\ log[1].exit = "failed"
    /\ log[1].tess = 1
    /\ ~log[1].tessOk
    /\ ShowsError(output, 1)
    /\ log[2].exit = "submit_error"

\* C3: with the remote backend configured, when a poll for a file answers
\* "failed" and the local engine is available and succeeds on the file, the
\* page's section shows the local engine's text and no error message.
C3_FailedPollFallsBackToLocal ==
    \A k \in Pages :
        (Configured /\ log[k].exit = "failed" /\ pytesseract /\ log[k].tessOk)
        => /\ docs[k].page_content = log[k].tessText
           /\ SectionBody(md_lines, k) = Rendered(log[k].tessText)
           /\ ~ShowsError(md_lines, k)

C3_Witness ==
    /\ pc = "done"
    /\ Len(log) = 1
    /\ Configured
    /\ log[1].exit = "failed"
    /\ log[1].polls = 2
    /\ log[1].tessOk
    /\ log[1].tessText = <<"t", "\n">>
    /\ "t" \in SectionTokens(output, 1)

\* C4: when the poll loop for a file sees no terminal status before the
\* deadline passes and no local engine is available, the page's section
\* shows an error message that contains the timeout indication.
C4_TimeoutShownWithoutLocal ==
    \A k \in Pages :
        (log[k].exit = "timeout" /\ ~pytesseract)
        => /\ ShowsError(md_lines, k)
           /\ "Timed out waiting for Azure Read result" \in SectionTokens(md_lines, k)

C4_Witness ==
    /\ pc = "done"
    /\ Len(log) = 1
    /\ ~pytesseract
    /\ log[1].exit = "timeout"
    /\ rj.status = "running"

\* C5: the fallback chain is evaluated per file: on every page the remote
\* backend is attempted exactly when it is configured, and the local engine
\* exactly when it is available and the remote backend is unconfigured or
\* has failed on that same page; failures on earlier pages change nothing.
C5_ChainIndependentPerFile ==
    \A k \in Pages :
        /\ log[k].azure = (IF Configured THEN 1 ELSE 0)
        /\ log[k].tess =
             (IF pytesseract /\ (~Configured \/ log[k].exit \in RemoteFailures) THEN 1 ELSE 0)

C5_Witness ==
    /\ Len(docs) = 2
    /\ log[1].exit \in RemoteFailures
    /\ log[2].azure = 1
    /\ log[2].exit = "succeeded"

\* C6: with the remote backend unconfigured (endpoint or key absent) and no
\* local engine, every page's section shows the "no OCR backend available"
\* notice and neither backend is invoked for any file.
C6_NoBackendNotice ==
    (~Configured /\ ~pytesseract) =>
        /\ pc \notin {"submit", "poll", "except", "tess"}
        /\ \A k \in 1..Len(log) :
             log[k].azure = 0 /\ log[k].polls = 0 /\ log[k].tess = 0
        /\ \A k \in Pages :
             /\ ShowsNoBackendNotice(md_lines, k)
             /\ docs[k].page_content = NoBackendText

C6_Witness ==
    /\ pc = "done"
    /\ Truthy(AZURE_ENDPOINT)
    /\ ~Truthy(AZURE_KEY)
    /\ ~pytesseract
    /\ Len(docs) = 2
    /\ ShowsNoBackendNotice(output, 2)

\* C7: the output file is written exactly once, as the last step; before
\* that step nothing has been written, so a run that stops early leaves no
\* output of its own.
C7_WrittenOnceAtTheEnd ==
    /\ pc # "done" => (written = 0 /\ output = <<>>)
    /\ pc = "done" =>
         /\ written = 1
         /\ output = md_lines
         /\ Len(docs) = Len(files)

C7_Witness ==
    /\ pc = "aborted"
    /\ Len(docs) = 1
    /\ Len(files) = 2
    /\ written = 0

PollLoopLeft == pc = "poll" /\ pc' # "poll"

ReturnsText ==
    /\ pc' = "emit"
    /\ rj'.status = "succeeded"
    /\ text' = JoinLines(Lines(rj'.readResults))

FailsWithPayload ==
    /\ pc' = "except"
    /\ rj'.status = "failed"
    /\ e_azure' = <<"Azure Read failed: ", "<payload>">>

FailsWithTimeout ==
    /\ pc' = "except"
    /\ time_now >= deadline
    /\ e_azure' = <<"Timed out waiting for Azure Read result">>

FailsWithRequestError ==
    /\ pc' = "except"
    /\ rj'.raised
    /\ time_now < deadline
    /\ e_azure' = <<"<requests exception>">>

\* C8 as stated: the poll loop is left in one of three ways only: the text
\* is returned on "succeeded", the call fails with the payload on "failed",
\* or it fails with a timeout once the deadline has passed.
C8_ThreeWaysOut ==
    [][PollLoopLeft => (ReturnsText \/ FailsWithPayload \/ FailsWithTimeout)]_vars

\* C8 amended: the poll loop is left in one of four ways only: the three
\* above, or the poll request (or the decoding of its answer) raises and the
\* call fails with that error; and a started poll loop eventually ends.
C8_FourWaysOutAndEnds ==
    /\ [][PollLoopLeft =>
            (ReturnsText \/ FailsWithPayload \/ FailsWithTimeout \/ FailsWithRequestError)]_vars
    /\ (pc = "poll") ~> (pc # "poll")

C8_Witness ==
    /\ Len(log) = 2
    /\ log[1].exit = "timeout"
    /\ log[2].exit = "poll_error"
    /\ log[2].polls = 2
    /\ pc = "except"

\* C9: a submission answered with a status other than 202, or with 202 and
\* no operation-location, fails at once and no poll request is issued for
\* the file; polls are issued only after an accepted submission that
\* carried an operation-location.
C9_NoPollWithoutAcceptedSubmission ==
    /\ pc = "poll" => log[idx].submit = "accepted"
    /\ \A k \in 1..Len(log) :
         /\ log[k].polls > 0 => log[k].submit = "accepted"
         /\ log[k].submit \in {"rejected", "no_location"}
            => (log[k].polls = 0 /\ log[k].exit = "submit_error")

C9_Witness ==
    /\ pc = "done"
    /\ Len(log) = 2
    /\ log[1].submit = "no_location"
    /\ log[1].polls = 0
    /\ log[2].submit = "accepted"
    /\ log[2].polls = 2

\* C10: per file each backend is attempted at most once; the local engine
\* only when the remote backend is unconfigured or has failed on that file;
\* a remote success is final: the local engine is not invoked and the page
\* uses the remote text, the "no text recognized" notice standing for an
\* empty or whitespace-only text.
C10_RemoteSuccessIsFinal ==
    /\ \A k \in 1..Len(log) :
         /\ log[k].azure <= 1
         /\ log[k].tess <= 1
         /\ log[k].tess > 0 => (~Configured \/ log[k].exit \in RemoteFailures)
         /\ log[k].exit = "succeeded" => log[k].tess = 0
    /\ \A k \in Pages :
         log[k].exit = "succeeded" =>
            /\ docs[k].page_content = log[k].azureText
            /\ Strip(log[k].azureText) = <<>> =>
                 (ShowsNoTextNotice(md_lines, k) /\ Len(SectionBody(md_lines, k)) = 1)
            /\ Strip(log[k].azureText) # <<>> =>
                 (\E i \in 1..Len(SectionBody(md_lines, k)) :
                     SectionBody(md_lines, k)[i].body = RStrip(log[k].azureText))

C10_Witness ==
    /\ pc = "done"
    /\ Len(log) = 2
    /\ pytesseract
    /\ log[1].exit = "succeeded"
    /\ log[1].azureText = <<" ">>
    /\ ShowsNoTextNotice(output, 1)
    /\ log[2].exit = "succeeded"
    /\ log[2].azureText = <<"a", "\n", "b", "\n", "c", " ">>

====
